---------------------------- MODULE Spec2Model ----------------------------
(***************************************************************************)
(* Model of the crate `endianness` (src/src/lib.rs): eight functions that  *)
(* read a fixed-width number from the front of a byte slice in big-endian  *)
(* or little-endian order and return Result<T, Error>.                     *)
(*                                                                         *)
(* TLC's integers are 32 bits wide, so u32/u64 values cannot be TLC        *)
(* integers.  A machine word of W bits is a sequence of W/8 limbs in       *)
(* 0..255, least significant limb first; a mathematical natural number is  *)
(* a limb sequence of any length without leading (most significant) zero   *)
(* limbs.  The code's casts, shifts and additions are carried out on       *)
(* words, limb by limb with carries; the claims' arithmetic is carried out *)
(* on naturals.                                                            *)
(***************************************************************************)
EXTENDS Integers, Sequences, FiniteSets, TLC

VARIABLES buf,       \* the byte slice handed to the read function (&[u8])
          op,        \* the function that was called, "none" before the call
          order,     \* the ByteOrder argument of the call
          result,    \* what the call returned: Ok(value), Err(ShortSlice), or a panic
          trace,     \* what the call's evaluation did: indices read, operands, sums
          n          \* the number the test fixture (read_correctness) started from

vars == <<buf, op, order, result, trace, n>>

(***************************************************************************)
(* Bounds of the model.                                                    *)
(***************************************************************************)
\* Longest slice handed to a read function (the widest read needs 8 bytes).
MaxLen == 9

(***************************************************************************)
(* Natural numbers as limb sequences (base 256, least significant first).  *)
(***************************************************************************)
RECURSIVE Norm(_)
Norm(s) ==
    IF s = <<>> THEN <<>>
    ELSE IF s[Len(s)] = 0 THEN Norm(SubSeq(s, 1, Len(s) - 1))
    ELSE s

RECURSIVE NatFromInt(_)
NatFromInt(k) ==
    IF k = 0 THEN <<>> ELSE <<k % 256>> \o NatFromInt(k \div 256)

RECURSIVE NatAddC(_, _, _)
NatAddC(a, b, c) ==
    IF a = <<>> /\ b = <<>>
    THEN (IF c = 0 THEN <<>> ELSE <<c>>)
    ELSE LET x == IF a = <<>> THEN 0 ELSE Head(a)
             y == IF b = <<>> THEN 0 ELSE Head(b)
             t == x + y + c
         IN  <<t % 256>> \o NatAddC(IF a = <<>> THEN a ELSE Tail(a),
                                    IF b = <<>> THEN b ELSE Tail(b),
                                    t \div 256)

NatAdd(a, b) == Norm(NatAddC(a, b, 0))

RECURSIVE NatMulC(_, _, _)
NatMulC(a, k, c) ==
    IF a = <<>>
    THEN NatFromInt(c)
    ELSE LET t == Head(a) * k + c
         IN  <<t % 256>> \o NatMulC(Tail(a), k, t \div 256)

\* a * k for a small factor k (k < 2^16)
NatMulSmall(a, k) == Norm(NatMulC(a, k, 0))

RECURSIVE NatSubB(_, _, _)
NatSubB(a, b, borrow) ==
    IF a = <<>>
    THEN <<>>
    ELSE LET y == IF b = <<>> THEN 0 ELSE Head(b)
             t == Head(a) - y - borrow
         IN  <<t % 256>> \o NatSubB(Tail(a),
                                    IF b = <<>> THEN b ELSE Tail(b),
                                    IF t < 0 THEN 1 ELSE 0)

\* a - b, for a >= b
NatSub(a, b) == Norm(NatSubB(a, b, 0))

RECURSIVE NatLessSameLen(_, _)
NatLessSameLen(a, b) ==
    IF a = <<>> THEN FALSE
    ELSE IF a[Len(a)] # b[Len(b)] THEN a[Len(a)] < b[Len(b)]
    ELSE NatLessSameLen(SubSeq(a, 1, Len(a) - 1), SubSeq(b, 1, Len(b) - 1))

\* a < b, for normalised a and b
NatLess(a, b) ==
    IF Len(a) # Len(b) THEN Len(a) < Len(b) ELSE NatLessSameLen(a, b)

\* 2^k as a natural: the limb of weight 256^(k \div 8) holds 2^(k % 8)
Pow2(k) == [j \in 1..(k \div 8 + 1) |-> IF j = k \div 8 + 1 THEN 2 ^ (k % 8) ELSE 0]

\* the natural written in decimal, given as its groups of four decimal digits
\* (most significant group first): <<1, 6909, 60>> is 1 6909 0060
RECURSIVE NatFromDecimal(_)
NatFromDecimal(gs) ==
    IF gs = <<>> THEN <<>>
    ELSE NatAdd(NatMulSmall(NatFromDecimal(SubSeq(gs, 1, Len(gs) - 1)), 10000),
                NatFromInt(gs[Len(gs)]))

(***************************************************************************)
(* Types of the crate.                                                     *)
(***************************************************************************)
ByteOrder == {"LittleEndian", "BigEndian"}

ShortSlice == "ShortSlice"

\* Error has the single variant ShortSlice
Error == {ShortSlice}

Ok(x) == [tag |-> "Ok", val |-> x]

Err(x) == [tag |-> "Err", val |-> x]

(***************************************************************************)
(* Evaluation of the expressions inside the read functions.  An evaluated  *)
(* expression carries its value v (a word of `limbs` limbs) and a record   *)
(* of what computing it did: the slice indices it read (idx), whether one  *)
(* of them was outside the slice (oob: Rust panics there), the operands of *)
(* its additions (terms) and the exact, unwrapped result of every addition *)
(* (sums).                                                                 *)
(***************************************************************************)
\* data[i]: slice indexing, which panics when i >= data.len()
At(data, i) ==
    [v     |-> <<IF i < Len(data) THEN data[i + 1] ELSE 0>>,
     limbs |-> 1,
     oob   |-> i >= Len(data),
     idx   |-> {i},
     terms |-> <<>>,
     sums  |-> <<>>]

\* the low nl limbs of s, zero-filled: a value truncated or extended to a word
Fit(s, nl) == [j \in 1..nl |-> IF j <= Len(s) THEN s[j] ELSE 0]

\* `e as uW` for an unsigned e: zero-extension (or truncation) to W bits
Cast(W, e) == [e EXCEPT !.v = Fit(e.v, W \div 8), !.limbs = W \div 8]

as_u16(e) == Cast(16, e)

as_u32(e) == Cast(32, e)

as_u64(e) == Cast(64, e)

\* w << k on a word: bits shifted past the top are dropped
ShlWord(w, k) ==
    LET q == k \div 8
        m == 2 ^ (k % 8)
    IN  [j \in 1..Len(w) |->
            (IF j - q >= 1 THEN (w[j - q] * m) % 256 ELSE 0)
          + (IF j - q - 1 >= 1 THEN (w[j - q - 1] * m) \div 256 ELSE 0)]

Shl(e, k) == [e EXCEPT !.v = ShlWord(e.v, k)]

TermsOf(e) == IF e.sums = <<>> THEN <<e.v>> ELSE e.terms

\* a + b on words of equal width: the exact sum is recorded, the value wraps
Plus(a, b) ==
    LET full == NatAdd(Norm(a.v), Norm(b.v))
    IN  [v     |-> Fit(full, a.limbs),
         limbs |-> a.limbs,
         oob   |-> a.oob \/ b.oob,
         idx   |-> a.idx \cup b.idx,
         terms |-> TermsOf(a) \o TermsOf(b),
         sums  |-> a.sums \o b.sums \o <<full>>]

\* an addition of the evaluation did not fit the word ("attempt to add with overflow")
Overflowed(e) == \E i \in 1..Len(e.sums) : Len(e.sums[i]) > e.limbs

(***************************************************************************)
(* The read functions.                                                     *)
(***************************************************************************)
\* mutant: both byte orders read as BigEndian
read_u16_same_order(data, endianness) ==
    IF Len(data) < 2
    THEN Err(ShortSlice)
    ELSE Ok(Plus(Shl(as_u16(At(data, 0)), 8), as_u16(At(data, 1))))

\* mutant: the high byte is shifted by 7, not 8
read_u16_shift7(data, endianness) ==
    IF Len(data) < 2
    THEN Err(ShortSlice)
    ELSE CASE endianness = "BigEndian" ->
                Ok(Plus(Shl(as_u16(At(data, 0)), 7), as_u16(At(data, 1))))
           [] endianness = "LittleEndian" ->
                Ok(Plus(Shl(as_u16(At(data, 1)), 7), as_u16(At(data, 0))))

read_u16(data, endianness) ==
    IF Len(data) < 2
    THEN Err(ShortSlice)
    ELSE CASE endianness = "BigEndian" ->
                Ok(Plus(Shl(as_u16(At(data, 0)), 8), as_u16(At(data, 1))))
           [] endianness = "LittleEndian" ->
                Ok(Plus(Shl(as_u16(At(data, 1)), 8), as_u16(At(data, 0))))

\* mutant: the length check is off by one
read_u32_len3(data, endianness) ==
    IF Len(data) < 3
    THEN Err(ShortSlice)
    ELSE CASE endianness = "BigEndian" ->
                Ok(Plus(Plus(Plus(Shl(as_u32(At(data, 0)), 24),
                                  Shl(as_u32(At(data, 1)), 16)),
                             Shl(as_u32(At(data, 2)), 8)),
                        as_u32(At(data, 3))))
           [] endianness = "LittleEndian" ->
                Ok(Plus(Plus(Plus(Shl(as_u32(At(data, 3)), 24),
                                  Shl(as_u32(At(data, 2)), 16)),
                             Shl(as_u32(At(data, 1)), 8)),
                        as_u32(At(data, 0))))

\* mutant: BigEndian shifts data[1] by 8 and data[2] by 16
read_u32_shifts_swapped(data, endianness) ==
    IF Len(data) < 4
    THEN Err(ShortSlice)
    ELSE CASE endianness = "BigEndian" ->
                Ok(Plus(Plus(Plus(Shl(as_u32(At(data, 0)), 24),
                                  Shl(as_u32(At(data, 1)), 8)),
                             Shl(as_u32(At(data, 2)), 16)),
                        as_u32(At(data, 3))))
           [] endianness = "LittleEndian" ->
                Ok(Plus(Plus(Plus(Shl(as_u32(At(data, 3)), 24),
                                  Shl(as_u32(At(data, 2)), 16)),
                             Shl(as_u32(At(data, 1)), 8)),
                        as_u32(At(data, 0))))

\* mutant: the low byte is taken from the end of the slice
read_u32_from_end(data, endianness) ==
    IF Len(data) < 4
    THEN Err(ShortSlice)
    ELSE CASE endianness = "BigEndian" ->
                Ok(Plus(Plus(Plus(Shl(as_u32(At(data, 0)), 24),
                                  Shl(as_u32(At(data, 1)), 16)),
                             Shl(as_u32(At(data, 2)), 8)),
                        as_u32(At(data, Len(data) - 1))))
           [] endianness = "LittleEndian" ->
                Ok(Plus(Plus(Plus(Shl(as_u32(At(data, Len(data) - 1)), 24),
                                  Shl(as_u32(At(data, 2)), 16)),
                             Shl(as_u32(At(data, 1)), 8)),
                        as_u32(At(data, 0))))

read_u32(data, endianness) ==
    IF Len(data) < 4
    THEN Err(ShortSlice)
    ELSE CASE endianness = "BigEndian" ->
                Ok(Plus(Plus(Plus(Shl(as_u32(At(data, 0)), 24),
                                  Shl(as_u32(At(data, 1)), 16)),
                             Shl(as_u32(At(data, 2)), 8)),
                        as_u32(At(data, 3))))
           [] endianness = "LittleEndian" ->
                Ok(Plus(Plus(Plus(Shl(as_u32(At(data, 3)), 24),
                                  Shl(as_u32(At(data, 2)), 16)),
                             Shl(as_u32(At(data, 1)), 8)),
                        as_u32(At(data, 0))))

\* mutant: the length check is off by one
read_u64_len7(data, endianness) ==
    IF Len(data) < 7
    THEN Err(ShortSlice)
    ELSE CASE endianness = "BigEndian" ->
                Ok(Plus(Plus(Plus(Plus(Plus(Plus(Plus(
                        Shl(as_u64(At(data, 0)), 56),
                        Shl(as_u64(At(data, 1)), 48)),
                        Shl(as_u64(At(data, 2)), 40)),
                        Shl(as_u64(At(data, 3)), 32)),
                        Shl(as_u64(At(data, 4)), 24)),
                        Shl(as_u64(At(data, 5)), 16)),
                        Shl(as_u64(At(data, 6)), 8)),
                        as_u64(At(data, 7))))
           [] endianness = "LittleEndian" ->
                Ok(Plus(Plus(Plus(Plus(Plus(Plus(Plus(
                        Shl(as_u64(At(data, 7)), 56),
                        Shl(as_u64(At(data, 6)), 48)),
                        Shl(as_u64(At(data, 5)), 40)),
                        Shl(as_u64(At(data, 4)), 32)),
                        Shl(as_u64(At(data, 3)), 24)),
                        Shl(as_u64(At(data, 2)), 16)),
                        Shl(as_u64(At(data, 1)), 8)),
                        as_u64(At(data, 0))))

\* mutant: LittleEndian shifts data[6] by 40 and data[5] by 48
read_u64_terms_swapped(data, endianness) ==
    IF Len(data) < 8
    THEN Err(ShortSlice)
    ELSE CASE endianness = "BigEndian" ->
                Ok(Plus(Plus(Plus(Plus(Plus(Plus(Plus(
                        Shl(as_u64(At(data, 0)), 56),
                        Shl(as_u64(At(data, 1)), 48)),
                        Shl(as_u64(At(data, 2)), 40)),
                        Shl(as_u64(At(data, 3)), 32)),
                        Shl(as_u64(At(data, 4)), 24)),
                        Shl(as_u64(At(data, 5)), 16)),
                        Shl(as_u64(At(data, 6)), 8)),
                        as_u64(At(data, 7))))
           [] endianness = "LittleEndian" ->
                Ok(Plus(Plus(Plus(Plus(Plus(Plus(Plus(
                        Shl(as_u64(At(data, 7)), 56),
                        Shl(as_u64(At(data, 5)), 48)),
                        Shl(as_u64(At(data, 6)), 40)),
                        Shl(as_u64(At(data, 4)), 32)),
                        Shl(as_u64(At(data, 3)), 24)),
                        Shl(as_u64(At(data, 2)), 16)),
                        Shl(as_u64(At(data, 1)), 8)),
                        as_u64(At(data, 0))))

read_u64(data, endianness) ==
    IF Len(data) < 8
    THEN Err(ShortSlice)
    ELSE CASE endianness = "BigEndian" ->
                Ok(Plus(Plus(Plus(Plus(Plus(Plus(Plus(
                        Shl(as_u64(At(data, 0)), 56),
                        Shl(as_u64(At(data, 1)), 48)),
                        Shl(as_u64(At(data, 2)), 40)),
                        Shl(as_u64(At(data, 3)), 32)),
                        Shl(as_u64(At(data, 4)), 24)),
                        Shl(as_u64(At(data, 5)), 16)),
                        Shl(as_u64(At(data, 6)), 8)),
                        as_u64(At(data, 7))))
           [] endianness = "LittleEndian" ->
                Ok(Plus(Plus(Plus(Plus(Plus(Plus(Plus(
                        Shl(as_u64(At(data, 7)), 56),
                        Shl(as_u64(At(data, 6)), 48)),
                        Shl(as_u64(At(data, 5)), 40)),
                        Shl(as_u64(At(data, 4)), 32)),
                        Shl(as_u64(At(data, 3)), 24)),
                        Shl(as_u64(At(data, 2)), 16)),
                        Shl(as_u64(At(data, 1)), 8)),
                        as_u64(At(data, 0))))

\* mutant: a conversion of the value, which keeps large values positive
SignedOf_value(w) == [neg |-> FALSE, mag |-> Norm(w)]

\* A signed integer value: sign and magnitude.
\* `w as iW`: the word's bits read as two's complement; a word with its top
\* bit set is negative, of magnitude (NOT w) + 1.
SignedOf(w) ==
    IF w[Len(w)] >= 128
    THEN [neg |-> TRUE,
          mag |-> Norm(NatAddC([j \in 1..Len(w) |-> 255 - w[j]], <<1>>, 0))]
    ELSE [neg |-> FALSE, mag |-> Norm(w)]

as_signed(e) == [e EXCEPT !.v = SignedOf(e.v)]

\* mutant: the byte order argument is not passed on
read_i16_ignores_order(data, endianness) ==
    LET r == read_u16(data, "BigEndian")
    IN  IF r.tag = "Err" THEN r ELSE Ok(as_signed(r.val))

\* try!(r): an Err returns from the caller at once
read_i16(data, endianness) ==
    LET r == read_u16(data, endianness)
    IN  IF r.tag = "Err" THEN r ELSE Ok(as_signed(r.val))

read_i32(data, endianness) ==
    LET r == read_u32(data, endianness)
    IN  IF r.tag = "Err" THEN r ELSE Ok(as_signed(r.val))

read_i64(data, endianness) ==
    LET r == read_u64(data, endianness)
    IN  IF r.tag = "Err" THEN r ELSE Ok(as_signed(r.val))

\* mutant: every NaN pattern becomes the canonical quiet NaN 0x7FC00000
transmute_f32_quiet_nan(w) ==
    LET exponent == (w[4] % 128) * 2 + w[3] \div 128
        fraction == Norm(<<w[1], w[2], w[3] % 128>>)
    IN  IF exponent = 255 /\ fraction # <<>>
        THEN [sign |-> 0, exponent |-> 255, fraction |-> <<0, 0, 64>>]
        ELSE [sign |-> w[4] \div 128, exponent |-> exponent, fraction |-> fraction]

\* mem::transmute::<u32, f32>: the 32 bits relabelled as an IEEE-754 binary32,
\* 1 sign bit, 8 exponent bits, 23 fraction bits
transmute_f32(w) ==
    [sign     |-> w[4] \div 128,
     exponent |-> (w[4] % 128) * 2 + w[3] \div 128,
     fraction |-> Norm(<<w[1], w[2], w[3] % 128>>)]

\* mem::transmute::<u64, f64>: the 64 bits relabelled as an IEEE-754 binary64,
\* 1 sign bit, 11 exponent bits, 52 fraction bits
transmute_f64(w) ==
    [sign     |-> w[8] \div 128,
     exponent |-> (w[8] % 128) * 16 + w[7] \div 16,
     fraction |-> Norm(<<w[1], w[2], w[3], w[4], w[5], w[6], w[7] % 16>>)]

read_f32(data, endianness) ==
    LET u == read_u32(data, endianness)
    IN  IF u.tag = "Err" THEN u
        ELSE Ok([u.val EXCEPT !.v = transmute_f32(u.val.v)])

read_f64(data, endianness) ==
    LET u == read_u64(data, endianness)
    IN  IF u.tag = "Err" THEN u
        ELSE Ok([u.val EXCEPT !.v = transmute_f64(u.val.v)])

(***************************************************************************)
(* A call of a read function.                                              *)
(***************************************************************************)
NoTrace == [limbs |-> 0, idx |-> {}, terms |-> <<>>, sums |-> <<>>]

Panic(msg) == [tag |-> "Panic", val |-> msg]

\* What the caller gets from an evaluation r.  An out-of-range index panics.
\* An addition that overflows panics in a build with overflow checks (debug)
\* and wraps in a build without them (release).
Returned(r, overflow_checks) ==
    IF r.tag = "Err" THEN r
    ELSE IF r.val.oob THEN Panic("index out of bounds")
    ELSE IF overflow_checks /\ Overflowed(r.val)
         THEN Panic("attempt to add with overflow")
    ELSE Ok(r.val.v)

TraceOf(r) ==
    IF r.tag = "Err" THEN NoTrace
    ELSE [limbs |-> r.val.limbs, idx |-> r.val.idx,
          terms |-> r.val.terms, sums |-> r.val.sums]

Call(f, endianness, r, overflow_checks) ==
    /\ op = "none"
    /\ op' = f
    /\ order' = endianness
    /\ result' = Returned(r, overflow_checks)
    /\ trace' = TraceOf(r)
    /\ UNCHANGED <<buf, n>>

Call_read_u16 ==
    \E endianness \in ByteOrder, overflow_checks \in BOOLEAN :
        Call("read_u16", endianness, read_u16(buf, endianness), overflow_checks)

Call_read_i16 ==
    \E endianness \in ByteOrder, overflow_checks \in BOOLEAN :
        Call("read_i16", endianness, read_i16(buf, endianness), overflow_checks)

Call_read_u32 ==
    \E endianness \in ByteOrder, overflow_checks \in BOOLEAN :
        Call("read_u32", endianness, read_u32(buf, endianness), overflow_checks)

Call_read_i32 ==
    \E endianness \in ByteOrder, overflow_checks \in BOOLEAN :
        Call("read_i32", endianness, read_i32(buf, endianness), overflow_checks)

Call_read_u64 ==
    \E endianness \in ByteOrder, overflow_checks \in BOOLEAN :
        Call("read_u64", endianness, read_u64(buf, endianness), overflow_checks)

Call_read_i64 ==
    \E endianness \in ByteOrder, overflow_checks \in BOOLEAN :
        Call("read_i64", endianness, read_i64(buf, endianness), overflow_checks)

Call_read_f32 ==
    \E endianness \in ByteOrder, overflow_checks \in BOOLEAN :
        Call("read_f32", endianness, read_f32(buf, endianness), overflow_checks)

Call_read_f64 ==
    \E endianness \in ByteOrder, overflow_checks \in BOOLEAN :
        Call("read_f64", endianness, read_f64(buf, endianness), overflow_checks)

(***************************************************************************)
(* The slices the calls are made on: every slice of every length up to     *)
(* MaxLen over a set of byte values that thins out as the slices grow.     *)
(***************************************************************************)
ByteSamples(len) ==
    IF len <= 3 THEN {0, 1, 2, 127, 128, 194, 255}
    ELSE IF len = 4 THEN {0, 1, 128, 194, 255}
    ELSE IF len = 8 THEN {0, 129, 255}
    ELSE IF len = 5 THEN {0, 129, 255}
    ELSE {1, 254}

SlicesOfLen(len) == [1..len -> ByteSamples(len)]

Slices == UNION {SlicesOfLen(len) : len \in 0..MaxLen}

NoNumber == [ty |-> "none"]

Init ==
    /\ buf \in Slices
    /\ op = "none"
    /\ order = "none"
    /\ result = [tag |-> "none"]
    /\ trace = NoTrace
    /\ n = NoNumber

Next ==
    \/ Call_read_u16
    \/ Call_read_i16
    \/ Call_read_u32
    \/ Call_read_i32
    \/ Call_read_u64
    \/ Call_read_i64
    \/ Call_read_f32
    \/ Call_read_f64

Spec == Init /\ [][Next]_vars

(***************************************************************************)
(* Vocabulary of the properties.                                           *)
(***************************************************************************)
\* the number of bytes a read function needs
Required(f) ==
    CASE f \in {"read_u16", "read_i16"} -> 2
      [] f \in {"read_u32", "read_i32", "read_f32"} -> 4
      [] f \in {"read_u64", "read_i64", "read_f64"} -> 8

\* the evaluation of read function f
ReadBy(f, data, endianness) ==
    CASE f = "read_u16" -> read_u16(data, endianness)
      [] f = "read_i16" -> read_i16(data, endianness)
      [] f = "read_u32" -> read_u32(data, endianness)
      [] f = "read_i32" -> read_i32(data, endianness)
      [] f = "read_u64" -> read_u64(data, endianness)
      [] f = "read_i64" -> read_i64(data, endianness)
      [] f = "read_f32" -> read_f32(data, endianness)
      [] f = "read_f64" -> read_f64(data, endianness)

\* the unsigned read a signed or floating-point read is derived from
UnsignedOf(f) ==
    CASE f \in {"read_u16", "read_i16"} -> "read_u16"
      [] f \in {"read_u32", "read_i32", "read_f32"} -> "read_u32"
      [] f \in {"read_u64", "read_i64", "read_f64"} -> "read_u64"

Called == op # "none"

IsShortSlice(r) == r.tag = "Err" /\ r.val = ShortSlice

IsOk(r) == r.tag = "Ok"

SameOutcome(a, b) == a.tag = b.tag /\ a.val = b.val

\* sum over i in [0, N) of data[i] * 2^(8 * e(i)), with e(i) = N-1-i for
\* BigEndian and e(i) = i for LittleEndian, over the naturals
RECURSIVE PositionalSum(_, _, _, _)
PositionalSum(data, N, endianness, i) ==
    IF i >= N THEN <<>>
    ELSE NatAdd(NatMulSmall(Pow2(8 * (IF endianness = "BigEndian"
                                      THEN N - 1 - i ELSE i)),
                            data[i + 1]),
                PositionalSum(data, N, endianness, i + 1))

\* -32768 as a signed value
MinI16 == [neg |-> TRUE, mag |-> NatFromInt(32768)]

(***************************************************************************)
(* C1: every read function returns Err(ShortSlice) on a slice shorter than *)
(* the width it needs (2, 4 or 8 bytes), the empty slice included, and     *)
(* does not return ShortSlice on a slice of exactly that width, in both    *)
(* byte orders.                                                            *)
(***************************************************************************)
ShortSliceBoundary ==
    Called =>
        /\ Len(buf) < Required(op) => IsShortSlice(result)
        /\ Len(buf) = Required(op) => ~IsShortSlice(result)

ShortSliceBoundaryReached ==
    /\ op = "read_f64"
    /\ order = "LittleEndian"
    /\ Len(buf) = 7
    /\ IsShortSlice(result)

(***************************************************************************)
(* C2: on a slice of at least N bytes the unsigned read of N = 2, 4, 8     *)
(* bytes returns Ok of the sum of byte[i] * 2^(8*(N-1-i)) (BigEndian) or   *)
(* of byte[i] * 2^(8*i) (LittleEndian); read_u16([1,2]) is 258 in          *)
(* BigEndian and 513 in LittleEndian.                                      *)
(***************************************************************************)
UnsignedIsPositionalSum ==
    (op \in {"read_u16", "read_u32", "read_u64"} /\ Len(buf) >= Required(op)) =>
        /\ IsOk(result)
        /\ Norm(result.val) = PositionalSum(buf, Required(op), order, 0)
        /\ (op = "read_u16" /\ buf = <<1, 2>>) =>
               Norm(result.val) = NatFromInt(IF order = "BigEndian" THEN 258 ELSE 513)

UnsignedIsPositionalSumReached ==
    /\ op = "read_u64"
    /\ order = "BigEndian"
    /\ buf = <<0, 129, 255, 0, 129, 255, 129, 255>>
    /\ IsOk(result)
    /\ result.val = <<255, 129, 255, 129, 0, 255, 129, 0>>

(***************************************************************************)
(* C4: read_i16/i32/i64 return ShortSlice exactly when the unsigned read   *)
(* of the same width does, and otherwise the two's-complement reading of   *)
(* its result u: u when u < 2^(W-1), else u - 2^W.  read_i16 of [0,128] in *)
(* LittleEndian and of [128,0] in BigEndian is -32768.                     *)
(***************************************************************************)
SignedIsReinterpretedUnsigned ==
    (op \in {"read_i16", "read_i32", "read_i64"}) =>
        \A overflow_checks \in BOOLEAN :
            LET W == 8 * Required(op)
                ur == Returned(ReadBy(UnsignedOf(op), buf, order), overflow_checks)
                u == Norm(ur.val)
            IN  /\ IsShortSlice(result) <=> IsShortSlice(ur)
                /\ ~IsShortSlice(ur) =>
                       /\ IsOk(ur)
                       /\ IsOk(result)
                       /\ result.val = IF NatLess(u, Pow2(W - 1))
                                       THEN [neg |-> FALSE, mag |-> u]
                                       ELSE [neg |-> TRUE, mag |-> NatSub(Pow2(W), u)]
                /\ (op = "read_i16" /\ buf = <<0, 128>> /\ order = "LittleEndian") =>
                       SameOutcome(result, Ok(MinI16))
                /\ (op = "read_i16" /\ buf = <<128, 0>> /\ order = "BigEndian") =>
                       SameOutcome(result, Ok(MinI16))

SignedIsReinterpretedUnsignedReached ==
    /\ op = "read_i64"
    /\ order = "LittleEndian"
    /\ Len(buf) = 8
    /\ IsOk(result)
    /\ result.val.neg
    /\ result.val.mag = <<1>>

(***************************************************************************)
(* C5 as stated: read_i16([0,128], BigEndian) is -32768.                   *)
(***************************************************************************)
BigEndian_0_128_IsMinI16 ==
    (op = "read_i16" /\ buf = <<0, 128>> /\ order = "BigEndian") =>
        SameOutcome(result, Ok(MinI16))

(***************************************************************************)
(* C5 as amended: read_i16 of the bytes [0,128] is -32768 (not 32768) in   *)
(* LittleEndian, where 128 is the most significant byte; in BigEndian the  *)
(* same bytes are 128.                                                     *)
(***************************************************************************)
LittleEndian_0_128_IsMinI16 ==
    (op = "read_i16" /\ buf = <<0, 128>>) =>
        /\ IsOk(result)
        /\ order = "LittleEndian" => result.val = MinI16
        /\ order = "BigEndian" => result.val = [neg |-> FALSE, mag |-> NatFromInt(128)]

LittleEndian_0_128_Reached ==
    /\ op = "read_i16"
    /\ buf = <<0, 128>>
    /\ order = "LittleEndian"
    /\ SameOutcome(result, Ok(MinI16))

(***************************************************************************)
(* C6: on a slice longer than the width N a read needs, every read         *)
(* function returns what it returns on the slice's first N bytes; the      *)
(* bytes from index N on are not read.                                     *)
(***************************************************************************)
OversizedSliceIsPrefix ==
    (Called /\ Len(buf) > Required(op)) =>
        /\ \A overflow_checks \in BOOLEAN :
               SameOutcome(result,
                           Returned(ReadBy(op, SubSeq(buf, 1, Required(op)), order),
                                    overflow_checks))
        /\ \A i \in trace.idx : i < Required(op)

OversizedSliceIsPrefixReached ==
    /\ op = "read_i32"
    /\ order = "BigEndian"
    /\ Len(buf) = 5
    /\ buf[5] = 255
    /\ IsOk(result)

(***************************************************************************)
(* The calls of read_u16 on every two-byte slice there is.                 *)
(***************************************************************************)
Byte == 0..255

InitPairs ==
    /\ buf \in [1..2 -> Byte]
    /\ op = "none"
    /\ order = "none"
    /\ result = [tag |-> "none"]
    /\ trace = NoTrace
    /\ n = NoNumber

NextPairs == Call_read_u16

SpecPairs == InitPairs /\ [][NextPairs]_vars

(***************************************************************************)
(* C8: read_u16([a,b], BigEndian) = read_u16([b,a], LittleEndian) for all  *)
(* bytes a and b.                                                          *)
(***************************************************************************)
OrderEquivalence ==
    (op = "read_u16" /\ order = "BigEndian" /\ Len(buf) = 2) =>
        \A overflow_checks \in BOOLEAN :
            SameOutcome(result,
                        Returned(read_u16(<<buf[2], buf[1]>>, "LittleEndian"),
                                 overflow_checks))

OrderEquivalenceReached ==
    /\ op = "read_u16"
    /\ order = "BigEndian"
    /\ buf = <<127, 194>>
    /\ IsOk(result)
    /\ result.val = <<194, 127>>

(***************************************************************************)
(* C9: every call of every read function, on a slice of any length, ends   *)
(* in Ok(value) or Err(ShortSlice) and in nothing else (no panic); it      *)
(* reads no index at or beyond the slice's length, and reads no byte at    *)
(* all when it returns ShortSlice.                                         *)
(***************************************************************************)
OnlyOkOrShortSlice ==
    Called =>
        /\ IsOk(result) \/ IsShortSlice(result)
        /\ \A i \in trace.idx : 0 <= i /\ i < Len(buf)
        /\ IsShortSlice(result) => trace.idx = {}

OnlyOkOrShortSliceReached ==
    /\ op = "read_u32"
    /\ Len(buf) = 4
    /\ IsOk(result)
    /\ trace.idx = 0..3

(***************************************************************************)
(* C10: in read_u16, read_u32 and read_u64 every sum of shifted bytes,     *)
(* intermediate or final, is below 2^W (the additions never overflow or    *)
(* wrap): the shifted bytes occupy disjoint bits of the word, and the sum  *)
(* is their bitwise OR.                                                    *)
(***************************************************************************)
RECURSIVE OrByte(_, _)
OrByte(a, b) ==
    IF a = 0 /\ b = 0 THEN 0
    ELSE (IF a % 2 = 1 \/ b % 2 = 1 THEN 1 ELSE 0) + 2 * OrByte(a \div 2, b \div 2)

RECURSIVE AndByte(_, _)
AndByte(a, b) ==
    IF a = 0 \/ b = 0 THEN 0
    ELSE (IF a % 2 = 1 /\ b % 2 = 1 THEN 1 ELSE 0) + 2 * AndByte(a \div 2, b \div 2)

RECURSIVE OrWords(_, _)
OrWords(ws, nl) ==
    IF ws = <<>> THEN [j \in 1..nl |-> 0]
    ELSE LET rest == OrWords(Tail(ws), nl)
         IN  [j \in 1..nl |-> OrByte(Head(ws)[j], rest[j])]

AdditionNeverCarries ==
    (op \in {"read_u16", "read_u32", "read_u64"} /\ Len(buf) >= Required(op)) =>
        LET W == 8 * Required(op) IN
        /\ IsOk(result)
        /\ Len(trace.terms) = Required(op)
        /\ Len(trace.sums) = Required(op) - 1
        /\ \A i \in 1..Len(trace.sums) : NatLess(trace.sums[i], Pow2(W))
        /\ \A i, j \in 1..Len(trace.terms) :
               i < j => \A l \in 1..trace.limbs :
                            AndByte(trace.terms[i][l], trace.terms[j][l]) = 0
        /\ result.val = OrWords(trace.terms, trace.limbs)

AdditionNeverCarriesReached ==
    /\ op = "read_u64"
    /\ order = "LittleEndian"
    /\ buf = <<255, 255, 255, 255, 255, 255, 255, 255>>
    /\ IsOk(result)
    /\ Len(trace.sums) = 7
    /\ trace.sums[7] = result.val

(***************************************************************************)
(* C7: read_f32 (read_f64) returns ShortSlice exactly when read_u32        *)
(* (read_u64) does, and otherwise the float whose IEEE-754 bit pattern,    *)
(* sign * 2^(W-1) + exponent * 2^F + fraction with F = 23 (52), is the     *)
(* integer read_u32 (read_u64) returns, for every pattern, NaN, infinity   *)
(* and subnormal included; read_f32([0xC2,0xFF,0,0], BigEndian) is -127.5. *)
(***************************************************************************)
FractionBits(f) == IF f = "read_f32" THEN 23 ELSE 52

\* the bit pattern of a float, as a natural
BitsOf(x, F, W) ==
    NatAdd(NatAdd(NatMulSmall(Pow2(W - 1), x.sign),
                  NatMulSmall(Pow2(F), x.exponent)),
           x.fraction)

FloatIsBitPattern ==
    (op \in {"read_f32", "read_f64"}) =>
        \A overflow_checks \in BOOLEAN :
            LET W == 8 * Required(op)
                F == FractionBits(op)
                ur == Returned(ReadBy(UnsignedOf(op), buf, order), overflow_checks)
            IN  /\ IsShortSlice(result) <=> IsShortSlice(ur)
                /\ ~IsShortSlice(ur) =>
                       /\ IsOk(ur)
                       /\ IsOk(result)
                       /\ result.val.sign \in {0, 1}
                       /\ result.val.exponent \in 0..(2 ^ (W - 1 - F) - 1)
                       /\ NatLess(result.val.fraction, Pow2(F))
                       /\ BitsOf(result.val, F, W) = Norm(ur.val)
                \* -127.5 = -(2^23 + fraction) * 2^(exponent - 127 - 23)
                /\ (op = "read_f32" /\ buf = <<194, 255, 0, 0>> /\ order = "BigEndian") =>
                       /\ IsOk(result)
                       /\ result.val = [sign |-> 1, exponent |-> 133,
                                        fraction |-> NatFromInt(8323072)]
                       /\ (2 ^ 23 + 8323072) * 2 ^ (133 - 127) = 255 * 2 ^ 22

\* a NaN pattern (exponent all ones, fraction not zero) comes through as it is
FloatIsBitPatternReached ==
    /\ op = "read_f32"
    /\ order = "LittleEndian"
    /\ buf = <<1, 0, 128, 255>>
    /\ IsOk(result)
    /\ result.val = [sign |-> 1, exponent |-> 255, fraction |-> <<1>>]

(***************************************************************************)
(* The test fixture read_correctness: a number n of an integer type is     *)
(* transmuted to its bytes in the target's native order, the bytes are     *)
(* reversed when the target's order is not the order under test, and the   *)
(* read function must return n.                                            *)
(***************************************************************************)
IntTypes == {"u16", "i16", "u32", "i32", "u64", "i64"}

BitsOfType(ty) ==
    CASE ty \in {"u16", "i16"} -> 16
      [] ty \in {"u32", "i32"} -> 32
      [] ty \in {"u64", "i64"} -> 64

IsSigned(ty) == ty \in {"i16", "i32", "i64"}

ReadOfType(ty) ==
    CASE ty = "u16" -> "read_u16" [] ty = "i16" -> "read_i16"
      [] ty = "u32" -> "read_u32" [] ty = "i32" -> "read_i32"
      [] ty = "u64" -> "read_u64" [] ty = "i64" -> "read_i64"

\* the magnitudes the fixture's numbers are drawn from: around every power
\* of two, and some numbers all of whose bytes differ
Magnitudes ==
    {Pow2(j) : j \in 0..64}
    \cup {NatSub(Pow2(j), <<1>>) : j \in 0..64}
    \cup {NatAdd(Pow2(j), <<1>>) : j \in 0..63}
    \cup {NatFromDecimal(<<258>>),
          NatFromDecimal(<<1, 2345>>),
          NatFromDecimal(<<842, 1376>>),
          NatFromDecimal(<<1690, 9060>>),
          NatFromDecimal(<<37, 3592, 8559>>),
          NatFromDecimal(<<7, 2623, 8597, 9038, 2856>>),
          NatFromDecimal(<<131, 1768, 4674, 6379, 320>>),
          NatFromDecimal(<<1836, 4758, 5444, 9306, 4720>>)}

\* the values of type ty among them
Numbers(ty) ==
    LET W == BitsOfType(ty) IN
    IF IsSigned(ty)
    THEN {[ty |-> ty, neg |-> FALSE, mag |-> m] :
              m \in {x \in Magnitudes : NatLess(x, Pow2(W - 1))}}
         \cup {[ty |-> ty, neg |-> TRUE, mag |-> m] :
              m \in {x \in Magnitudes : x # <<>> /\ ~NatLess(Pow2(W - 1), x)}}
    ELSE {[ty |-> ty, neg |-> FALSE, mag |-> m] :
              m \in {x \in Magnitudes : NatLess(x, Pow2(W))}}

Reverse(s) == [j \in 1..Len(s) |-> s[Len(s) + 1 - j]]

\* mem::transmute::<_, [u8; size]>(x): the bytes of x as the target holds them;
\* a negative x is held as 2^(8*size) - |x| (two's complement)
transmute_bytes(x, size, target_endian) ==
    LET bits == IF x.neg THEN NatSub(Pow2(8 * size), x.mag) ELSE x.mag
        le == Fit(bits, size)
    IN  IF target_endian = "little" THEN le ELSE Reverse(le)

\* prop(n) of read_big_endian and read_little_endian: the bytes handed to $read
prop_data(x, endianness, target_endian) ==
    LET native == transmute_bytes(x, BitsOfType(x.ty) \div 8, target_endian)
        same == (target_endian = "big") <=> (endianness = "BigEndian")
    IN  IF same THEN native ELSE Reverse(native)

Prop(endianness) ==
    \E target_endian \in {"little", "big"}, overflow_checks \in BOOLEAN :
        LET bytes == prop_data(n, endianness, target_endian)
            f == ReadOfType(n.ty)
            r == ReadBy(f, bytes, endianness)
        IN  /\ op = "none"
            /\ buf' = bytes
            /\ op' = f
            /\ order' = endianness
            /\ result' = Returned(r, overflow_checks)
            /\ trace' = TraceOf(r)
            /\ UNCHANGED n

read_big_endian == Prop("BigEndian")

read_little_endian == Prop("LittleEndian")

InitProp ==
    /\ buf = <<>>
    /\ op = "none"
    /\ order = "none"
    /\ result = [tag |-> "none"]
    /\ trace = NoTrace
    /\ n \in UNION {Numbers(ty) : ty \in IntTypes}

NextProp ==
    \/ read_big_endian
    \/ read_little_endian

SpecProp == InitProp /\ [][NextProp]_vars

(***************************************************************************)
(* C3: for every integer type and every number n of it, n's bytes laid out *)
(* in BigEndian order and read as BigEndian give Ok(n), and n's bytes laid *)
(* out in LittleEndian order and read as LittleEndian give Ok(n).          *)
(***************************************************************************)
RoundTrip ==
    Called =>
        /\ Len(buf) = BitsOfType(n.ty) \div 8
        /\ IsOk(result)
        /\ IF IsSigned(n.ty)
           THEN result.val = [neg |-> n.neg, mag |-> n.mag]
           ELSE Norm(result.val) = n.mag

\* i64::MIN, read back from its big-endian bytes
RoundTripReached ==
    /\ op = "read_i64"
    /\ order = "BigEndian"
    /\ n = [ty |-> "i64", neg |-> TRUE, mag |-> Pow2(63)]
    /\ buf = <<128, 0, 0, 0, 0, 0, 0, 0>>
    /\ IsOk(result)
    /\ result.val = [neg |-> TRUE, mag |-> Pow2(63)]

=============================================================================
